---- MODULE Spec2Model ----
(***************************************************************************)
(* The record-replay engine of nullzero.js: NZJS.Replay.Record             *)
(* (src/replay/record.js) and NZJS.Replay.Walk (src/replay/walk.js),       *)
(* driven by two peers that exchange pack()/unpack() payloads.             *)
(*                                                                         *)
(* Times are integers (ticks of the game clock); a state is an input       *)
(* state: named buttons and named axes.                                    *)
(***************************************************************************)
EXTENDS Integers, Sequences, FiniteSets, TLC

\* ------------------------------------------------------------------ bounds

\* Largest time the clock reaches and the largest time a caller supplies.
MaxTime == 3

\* Most entries a log holds before further inserts are refused by the model.
MaxLen == 3

\* Largest value of an axis.
MaxAxis == 1

\* Most entries the log holds whose time ranges are packed separately.
MaxRangeLen == 4

\* Most entries the log holds while walks are taken of it.
MaxWalkLen == 2
MaxPolls == 3

\* The window (seconds of history) the Records are constructed with.
Window == 2

\* The two peers' Records: the sender records and packs, the receiver unpacks.
Logs == {"snd", "rcv"}

\* The Walk objects a caller may hold.
Walks == {"w1"}

\* The named buttons and axes of an input state, in key order.
ButtonNames == <<"b1">>
AxisNames == <<"a1">>

Times == 0..MaxTime
AxisVals == 0..MaxAxis

\* The State-Kind strategies a Record can be constructed with.
Kinds == {"plain", "input"}

\* -------------------------------------------------------------- sequences

Range(s) == {s[i] : i \in DOMAIN s}

\* Array.prototype.splice(i, 0, e) with i counted from 1: e lands before s[i].
SpliceIn(s, i, e) == SubSeq(s, 1, i - 1) \o <<e>> \o SubSeq(s, i, Len(s))

\* Array.prototype.splice(0, 1): the first element is removed.
SpliceFirst(s) == SubSeq(s, 2, Len(s))

\* --------------------------------------------------------- the state kind

Button(d, p, r) == [down |-> d, pressed |-> p, released |-> r]

\* An input state: a snapshot per button name and a value per axis name.
States ==
    [buttons : [Range(ButtonNames) -> {Button(d, FALSE, FALSE) : d \in BOOLEAN}],
     axes : [Range(AxisNames) -> AxisVals]]

\* The base state both peers construct their Record with.
BaseState ==
    [buttons |-> [n \in Range(ButtonNames) |-> Button(FALSE, FALSE, FALSE)],
     axes |-> [n \in Range(AxisNames) |-> 0]]

BtnChange(n, d) == [kind |-> "btn", name |-> n, down |-> d]
AxisChange(n, v) == [kind |-> "axis", name |-> n, value |-> v]

RECURSIVE BtnChanges(_, _, _)
BtnChanges(base, target, i) ==
    IF i > Len(ButtonNames) THEN <<>>
    ELSE LET n == ButtonNames[i]
         IN  (IF target.buttons[n].down # base.buttons[n].down
              THEN <<BtnChange(n, target.buttons[n].down)>> ELSE <<>>)
             \o BtnChanges(base, target, i + 1)

RECURSIVE AxisChanges(_, _, _, _)
AxisChanges(base, target, i, elide) ==
    IF i > Len(AxisNames) THEN <<>>
    ELSE LET n == AxisNames[i]
         IN  (IF elide /\ target.axes[n] = base.axes[n]
              THEN <<>> ELSE <<AxisChange(n, target.axes[n])>>)
             \o AxisChanges(base, target, i + 1, elide)

\* A strategy that meets the constructor's contract with nothing added: the
\* fields that differ, [ ] for identical states.
plainDiff(base, target) ==
    BtnChanges(base, target, 1) \o AxisChanges(base, target, 1, TRUE)

\* A diff that leaves out the axes that did not move.
inputDiffElided(base, target) ==
    BtnChanges(base, target, 1) \o AxisChanges(base, target, 1, TRUE)

\* The input strategy: a button's down-state when it differs, every axis.
inputDiff(base, target) ==
    BtnChanges(base, target, 1) \o AxisChanges(base, target, 1, FALSE)

\* diff(state, state) -> [ change, ... ] of the strategy k.
Diff(k, base, target) ==
    IF k = "input" THEN inputDiff(base, target) ELSE plainDiff(base, target)

plainApplyChange(s, c) ==
    IF c.kind = "btn"
    THEN [s EXCEPT !.buttons[c.name] = Button(c.down, FALSE, FALSE)]
    ELSE [s EXCEPT !.axes[c.name] = c.value]

\* The input strategy: a new down-state sets the matching one-shot flag.
inputApplyChange(s, c) ==
    IF c.kind = "btn"
    THEN [s EXCEPT !.buttons[c.name] = Button(c.down, c.down, ~c.down)]
    ELSE [s EXCEPT !.axes[c.name] = c.value]

ApplyChange(k, s, c) ==
    IF k = "input" THEN inputApplyChange(s, c) ELSE plainApplyChange(s, c)

\* apply(state, [ change, ... ]) -> state: a new state, the argument untouched.
RECURSIVE Apply(_, _, _)
Apply(k, s, changes) ==
    IF changes = <<>> THEN s
    ELSE Apply(k, ApplyChange(k, s, Head(changes)), Tail(changes))

\* The input strategy's hook: every button's one-shot flags are cleared.
inputWalkHook(s) ==
    [s EXCEPT !.buttons =
        [n \in DOMAIN s.buttons |-> Button(s.buttons[n].down, FALSE, FALSE)]]

\* walk(state) -> void of the strategy k, run in place on the state object.
WalkHook(k, s) == IF k = "input" THEN inputWalkHook(s) ELSE s

\* ------------------------------------------------- NZJS.Replay.Record

Entry(t, d) == [time |-> t, diff |-> d]

\* new Record(diff, apply, walk, window, base)
NewRecord(base) ==
    [record |-> <<>>,
     base |-> base,
     basetime |-> 0,
     current |-> base,
     curtime |-> 0,
     lastpack |-> 0,
     \* _current and _base are one object until either is replaced
     curIsBase |-> TRUE]

Max(S) == CHOOSE x \in S : \A y \in S : y <= x

\* Record.prototype._insertEntry: push when the entry is newer than the last
\* one; otherwise scan from the tail and splice before the first entry found
\* with a greater time; the scan may end without inserting.
insertEntry(entries, entry) ==
    IF entries = <<>> \/ entries[Len(entries)].time < entry.time
    THEN Append(entries, entry)
    ELSE LET later == {i \in DOMAIN entries : entries[i].time > entry.time}
         IN  IF later = {} THEN entries
             ELSE SpliceIn(entries, Max(later), entry)

\* A loop that removes the old head entries without folding them into the base.
RECURSIVE foldHeadLost(_, _, _)
foldHeadLost(k, rec, time) ==
    IF rec.record # <<>> /\ rec.record[1].time < time
    THEN foldHeadLost(k,
                      [rec EXCEPT !.record = SpliceFirst(rec.record),
                                  !.curIsBase = FALSE],
                      time)
    ELSE rec

\* The while loop of _advanceBaseTo: fold the head into the base and remove
\* it, as long as the head is older than `time`.
RECURSIVE foldHead(_, _, _)
foldHead(k, rec, time) ==
    IF rec.record # <<>> /\ rec.record[1].time < time
    THEN foldHead(k,
                  [rec EXCEPT !.base = Apply(k, rec.base, rec.record[1].diff),
                              !.record = SpliceFirst(rec.record),
                              !.curIsBase = FALSE],
                  time)
    ELSE rec

\* Record.prototype._advanceBaseTo
advanceBaseTo(k, rec, time) ==
    IF rec.record = <<>> THEN rec
    ELSE foldHead(k, [rec EXCEPT !.basetime = rec.record[1].time], time)

\* A record that stamps the time and prunes before it looks at the delta.
recordEager(k, rec, state, time) ==
    LET changes == Diff(k, rec.current, state)
        r1 == [rec EXCEPT !.curtime = time,
                          !.current = Apply(k, rec.current, changes),
                          !.curIsBase = FALSE]
        r2 == advanceBaseTo(k, r1, time - Window)
    IN  IF Len(changes) > 0
        THEN [r2 EXCEPT !.record = insertEntry(r2.record, Entry(time, changes))]
        ELSE r2

\* Record.prototype.record
record(k, rec, state, time) ==
    LET changes == Diff(k, rec.current, state)
    IN  IF Len(changes) > 0
        THEN LET r1 == [rec EXCEPT !.curtime = time,
                                   !.current = Apply(k, rec.current, changes),
                                   !.curIsBase = FALSE]
                 r2 == advanceBaseTo(k, r1, time - Window)
             IN  [r2 EXCEPT !.record = insertEntry(r2.record, Entry(time, changes))]
        ELSE rec

\* The output array of pack(), as JSON.stringify writes it and JSON.parse
\* reads it back: one { t, d } object per entry at or after `since`.
RECURSIVE packed(_, _)
packed(entries, since) ==
    IF entries = <<>> THEN <<>>
    ELSE (IF Head(entries).time >= since
          THEN <<[t |-> Head(entries).time, d |-> Head(entries).diff]>>
          ELSE <<>>)
         \o packed(Tail(entries), since)

\* A pack that hands its entries over: the record is empty afterwards.
packAndClear(rec, clock) == [rec EXCEPT !.lastpack = clock, !.record = <<>>]

\* Record.prototype.pack: the record after the call (only _lastpack moves).
pack(rec, clock) == [rec EXCEPT !.lastpack = clock]

\* Record.prototype.unpack: every element goes through _insertEntry, in order.
RECURSIVE unpackInto(_, _)
unpackInto(entries, payload) ==
    IF payload = <<>> THEN entries
    ELSE unpackInto(insertEntry(entries, Entry(Head(payload).t, Head(payload).d)),
                    Tail(payload))

unpack(rec, payload) == [rec EXCEPT !.record = unpackInto(rec.record, payload)]

\* The JSON value null where a { t, d } object is expected.
NullItem == [null |-> TRUE]

\* What JSON.parse makes of the string given to unpack.
UnparseableDoc == [shape |-> "unparseable"]
NullDoc == [shape |-> "null"]
ObjectDoc == [shape |-> "object"]
ArrayDoc(items) == [shape |-> "array", items |-> items]

\* The for loop of unpack over parsed items: reading .t of null throws, with
\* the items before it already inserted.
RECURSIVE unpackItems(_, _)
unpackItems(rec, items) ==
    IF items = <<>> THEN [thrown |-> "none", rec |-> rec]
    ELSE IF Head(items) = NullItem THEN [thrown |-> "TypeError", rec |-> rec]
    ELSE unpackItems(
             [rec EXCEPT !.record =
                 insertEntry(rec.record, Entry(Head(items).t, Head(items).d))],
             Tail(items))

\* Record.prototype.unpack on any string: JSON.parse throws on text that is
\* no JSON; null has no length to read; an object that is no array has
\* length undefined, so the loop body never runs.
unpackDoc(rec, doc) ==
    IF doc.shape = "unparseable" THEN [thrown |-> "SyntaxError", rec |-> rec]
    ELSE IF doc.shape = "null" THEN [thrown |-> "TypeError", rec |-> rec]
    ELSE IF doc.shape = "object" THEN [thrown |-> "none", rec |-> rec]
    ELSE unpackItems(rec, doc.items)

\* --------------------------------------------------- NZJS.Replay.Walk

\* A loop that also applies the entries at the walk's own time.
RECURSIVE walkEntriesAgain(_, _, _, _, _, _)
walkEntriesAgain(k, state, entries, i, wtime, time) ==
    IF i > Len(entries) \/ entries[i].time > time
    THEN [state |-> state, applied |-> FALSE]
    ELSE IF entries[i].time >= wtime
         THEN [walkEntriesAgain(k, Apply(k, state, entries[i].diff),
                                entries, i + 1, wtime, time)
                 EXCEPT !.applied = TRUE]
         ELSE walkEntriesAgain(k, state, entries, i + 1, wtime, time)

\* The for loop of advanceTo from index i on: stop at the first entry later
\* than `time`, apply the entries later than the walk's own time.
RECURSIVE walkEntries(_, _, _, _, _, _)
walkEntries(k, state, entries, i, wtime, time) ==
    IF i > Len(entries) \/ entries[i].time > time
    THEN [state |-> state, applied |-> FALSE]
    ELSE IF entries[i].time > wtime
         THEN [walkEntries(k, Apply(k, state, entries[i].diff),
                           entries, i + 1, wtime, time)
                 EXCEPT !.applied = TRUE]
         ELSE walkEntries(k, state, entries, i + 1, wtime, time)

\* An advanceTo without the rewind check: the hook runs and the walk's time
\* is set, whatever `time` is.
advanceToUnchecked(k, w, rec, time) ==
    LET hooked == WalkHook(k, w.state)
        res == walkEntries(k, hooked, rec.record, 1, w.time, time)
    IN  [thrown |-> "none",
         walk |-> [w EXCEPT !.state = res.state,
                            !.time = time,
                            !.shared = w.shared /\ ~res.applied],
         hooked |-> hooked]

\* An advanceTo that does not call walk(state) before it applies entries.
advanceToNoHook(k, w, rec, time) ==
    IF time < w.time
    THEN [thrown |-> "rewind", walk |-> w, hooked |-> w.state]
    ELSE LET res == walkEntries(k, w.state, rec.record, 1, w.time, time)
         IN  [thrown |-> "none",
              walk |-> [w EXCEPT !.state = res.state,
                                 !.time = time,
                                 !.shared = w.shared /\ ~res.applied],
              hooked |-> w.state]

\* Walk.prototype.advanceTo on walk w of record rec.  `hooked` is the state
\* object after walk(state) has run on it; while the walk still holds the
\* record's _base object (w.shared) that object is the record's too.
advanceTo(k, w, rec, time) ==
    IF time < w.time
    THEN [thrown |-> "rewind", walk |-> w, hooked |-> w.state]
    ELSE LET hooked == WalkHook(k, w.state)
             res == walkEntries(k, hooked, rec.record, 1, w.time, time)
         IN  [thrown |-> "none",
              walk |-> [w EXCEPT !.state = res.state,
                                 !.time = time,
                                 !.shared = w.shared /\ ~res.applied],
              hooked |-> hooked]

\* The fields the Walk constructor sets before it calls advanceTo(start).
NewWalk(l, rec) ==
    [log |-> l, state |-> rec.base, time |-> rec.basetime, shared |-> TRUE]

\* ------------------------------------------------- NZJS.Input, live

\* ButtonPrototype._construct
NewButton == [isDown |-> FALSE, wasDown |-> FALSE, willBeDown |-> FALSE]

\* ButtonPrototype.down, up, pressed, released
down(b) == b.isDown
up(b) == ~b.isDown
pressed(b) == b.isDown /\ ~b.wasDown
released(b) == ~b.isDown /\ b.wasDown

\* A poll that forgets the tick before: wasDown is left as it was.
pollStale(b) == [b EXCEPT !.isDown = b.willBeDown]

\* ButtonPrototype.poll
poll(b) == [b EXCEPT !.wasDown = b.isDown, !.isDown = b.willBeDown]

\* new ButtonSnapshot(wasDown, wasUp, wasPressed, wasReleased)
ButtonSnapshot(d, u, p, r) ==
    [live |-> FALSE, wasDown |-> d, wasUp |-> u, wasPressed |-> p,
     wasReleased |-> r]

\* NZJS.Input.buttonSnapshot
buttonSnapshot(b) == ButtonSnapshot(down(b), up(b), pressed(b), released(b))

\* new AxisSnapshot(value)
AxisSnapshot(v) == [live |-> FALSE, value |-> v]

\* NZJS.Input.axisSnapshot: the axis' value at the call.
axisSnapshot(v) == AxisSnapshot(v)

\* What an InputState holds under a name: the live object the player drives,
\* or a snapshot.
Live == [live |-> TRUE]

\* A KeyButton and a MouseAxis, and the InputState they were added to.
NewInput ==
    [button |-> NewButton,
     axis |-> 0,
     states |-> <<[button |-> Live, axis |-> Live]>>]

\* down, up, pressed, released and value read through the InputState s.
ReadThrough(inp, s) ==
    [button |-> IF s.button.live THEN buttonSnapshot(inp.button) ELSE s.button,
     axis |-> IF s.axis.live THEN inp.axis ELSE s.axis.value]

\* A pollNext that hands the live objects on without putting snapshots in
\* their place.
pollNextShared(inp) ==
    LET this == inp.states[Len(inp.states)]
    IN  [inp EXCEPT !.states = Append(inp.states, this),
                    !.button = poll(inp.button)]

\* InputState.prototype.pollNext on the newest state: `next` takes over the
\* live objects, this state keeps snapshots of them, then the button is
\* polled (the poll of a MouseAxis does nothing).
pollNext(inp) ==
    LET this == inp.states[Len(inp.states)]
        kept == [button |-> buttonSnapshot(inp.button),
                 axis |-> axisSnapshot(inp.axis)]
    IN  [inp EXCEPT !.states = Append([inp.states EXCEPT ![Len(inp.states)] = kept],
                                      this),
                    !.button = poll(inp.button)]

\* -------------------------------------------- NZJS.Input, composite buttons

\* The range AxisButton(axis, minDown, maxDown) was constructed with.
MinDown == 1
MaxDown == 1

\* Two KeyButtons; AndButton(key1, key2), OrButton(key1, key2) and
\* NotButton(key1) built from them; ButtonAxis(0).withButton(key2, 0, 1);
\* a MouseAxis and the AxisButton on it. `callable` tells whether the axis
\* object handed to AxisButton offers value as a function; the axes of
\* axis.js hold it as a number.
NewPad(callable) ==
    [key1 |-> NewButton, key2 |-> NewButton,
     andB |-> NewButton, orB |-> NewButton, notB |-> NewButton,
     buttonAxis |-> 0,
     axis |-> [value |-> 0, callable |-> callable],
     axisButton |-> NewButton,
     thrown |-> "none"]

\* AndButton.prototype.poll
andPoll(p) ==
    LET left == poll(p.key1)
        right == poll(p.key2)
    IN  [p EXCEPT !.key1 = left, !.key2 = right,
                  !.andB = [willBeDown |-> left.willBeDown /\ right.willBeDown,
                            isDown |-> left.isDown /\ right.isDown,
                            wasDown |-> left.wasDown /\ right.wasDown]]

\* OrButton.prototype.poll
orPoll(p) ==
    LET left == poll(p.key1)
        right == poll(p.key2)
    IN  [p EXCEPT !.key1 = left, !.key2 = right,
                  !.orB = [willBeDown |-> left.willBeDown \/ right.willBeDown,
                           isDown |-> left.isDown \/ right.isDown,
                           wasDown |-> left.wasDown \/ right.wasDown]]

\* NotButton.prototype.poll
notPoll(p) ==
    LET btn == poll(p.key1)
    IN  [p EXCEPT !.key1 = btn,
                  !.notB = [willBeDown |-> ~btn.willBeDown,
                            isDown |-> ~btn.isDown,
                            wasDown |-> ~btn.wasDown]]

\* ButtonAxis.prototype.poll
buttonAxisPoll(p) ==
    LET btn == poll(p.key2)
    IN  [p EXCEPT !.key2 = btn,
                  !.buttonAxis = 0 + (IF down(btn) THEN 1 ELSE 0)]

\* The loops of pollNext over the buttons and the axes added to the state,
\* in the order they were added.
pollAll(p) == buttonAxisPoll(notPoll(orPoll(andPoll(p))))

\* AxisButton.prototype.poll: this.axis.value() raises a TypeError on an axis
\* that holds its value as a number.
axisButtonPoll(p) ==
    IF ~p.axis.callable
    THEN [p EXCEPT !.thrown = "TypeError"]
    ELSE LET val == p.axis.value
             willBeDown == val >= MinDown /\ val <= MaxDown
             isDown == willBeDown
             wasDown == isDown
         IN  [p EXCEPT !.axisButton = [willBeDown |-> willBeDown,
                                       isDown |-> isDown,
                                       wasDown |-> wasDown],
                       !.thrown = "none"]

\* ------------------------------------------------- NZJS.Input.Record

\* The keyframes an InputRecord holds at most, and the keyframes of one diff.
MaxFrames == 3
MaxDiffLen == 2

\* keyframe.deltas.button of a recorded keyframe: the new down-state of some
\* buttons, at least one.
ButtonDeltas ==
    UNION {[S -> BOOLEAN] : S \in (SUBSET Range(ButtonNames)) \ {{}}}

\* { time, deltas: { button, axis } } of a state without axes.
Keyframes == [time : Times, deltas : [button : ButtonDeltas]]

\* The keyframes arrays of the diff objects up to n keyframes long.
DiffsUpTo(n) == UNION {[1..m -> Keyframes] : m \in 1..n}

\* new InputReplay(record)
NewReplay == [time |-> 0, handled |-> {}]

\* new NZJS.Input.State(): no buttons.
NoState == [buttons |-> <<>>]

\* new InputRecord() at game time `time`, in the version of part_005
\* ("insert") or the earlier one of record.js ("push"); `applied` is the
\* keyframes array of the last diff handed to apply, `returned` the state
\* the replay's last stateAt returned.
NewInputRecord(version, time) ==
    [version |-> version, epochTime |-> time, keyframes |-> <<>>,
     thrown |-> "none", applied |-> <<>>, replay |-> NewReplay,
     returned |-> NoState]

\* InputRecord.prototype._insertKeyframe: scan from the tail for a keyframe
\* older than the new one and splice the new one in at its index.
insertKeyframe(keyframes, keyframe) ==
    LET older == {i \in DOMAIN keyframes : keyframes[i].time < keyframe.time}
    IN  IF older = {}
        THEN keyframes
        ELSE SpliceIn(keyframes, Max(older), keyframe)

\* InputRecord.prototype.apply, from keyframe i of the diff on.
RECURSIVE applyFrom(_, _, _, _, _)
applyFrom(version, epochTime, keyframes, diff, i) ==
    IF i > Len(diff)
    THEN keyframes
    ELSE applyFrom(version, epochTime,
                   IF diff[i].time >= epochTime
                   THEN IF version = "push"
                        THEN Append(keyframes, diff[i])
                        ELSE insertKeyframe(keyframes, diff[i])
                   ELSE keyframes,
                   diff, i + 1)

\* InputRecord.prototype.apply
inputRecordApply(rec, diff) ==
    [rec EXCEPT !.keyframes = applyFrom(rec.version, rec.epochTime,
                                        rec.keyframes, diff, 1),
                !.thrown = "none",
                !.applied = diff]

\* InputRecord.prototype.record: part_005 calls this.stateAt, which an
\* InputRecord does not have; the earlier version is an empty stub.
inputRecordRecord(rec) ==
    [rec EXCEPT !.thrown = IF rec.version = "push" THEN "none" ELSE "TypeError"]

\* A field no statement has assigned.
Undefined == "undefined"

\* typeof-faithful booleans of a snapshot field that may be undefined.
JsBool(b) == IF b THEN "true" ELSE "false"

\* The loop of stateAt over deltas.button of one keyframe: a button the state
\* does not hold yet gets a new ButtonSnapshot(), then wasDown, wasPressed
\* and wasReleased are assigned.
applyKeyframe(buttons, keyframe, handled) ==
    LET d == keyframe.deltas.button
    IN  [n \in DOMAIN buttons \cup DOMAIN d |->
           IF n \in DOMAIN d
           THEN [wasDown |-> d[n],
                 wasUp |-> IF n \in DOMAIN buttons THEN buttons[n].wasUp
                                                   ELSE Undefined,
                 wasPressed |-> ~handled /\ d[n],
                 wasReleased |-> ~handled /\ ~d[n]]
           ELSE buttons[n]]

\* The fast-forward loop of stateAt from keyframe i on.
RECURSIVE fastForward(_, _, _, _, _)
fastForward(keyframes, i, time, handled, buttons) ==
    IF i > Len(keyframes) \/ keyframes[i].time > time
    THEN [handled |-> handled, buttons |-> buttons]
    ELSE fastForward(keyframes, i + 1, time,
                     handled \cup {keyframes[i].time},
                     applyKeyframe(buttons, keyframes[i],
                                   keyframes[i].time \in handled))

\* InputReplay.prototype.stateAt: the epoch state of the record has no
\* buttons and no axes.
stateAt(rec, time) ==
    LET res == fastForward(rec.keyframes, 1, time, rec.replay.handled,
                           NoState.buttons)
    IN  [rec EXCEPT !.replay = [time |-> time, handled |-> res.handled],
                    !.returned = [buttons |-> res.buttons]]

\* ButtonSnapshot.prototype.down, up of a replayed snapshot
snapDown(s) == JsBool(s.wasDown)
snapUp(s) == s.wasUp

\* ---------------------------------------------------- NZJS.RTC.Connection

Peers == {"caller", "callee"}

\* The datagrams on their way to one connection at most.
MaxUnread == 2

\* new Connection(isReliable): state Closed, an RTCPeerConnection in `conn`,
\* no `data` field yet. `channel` is the readyState of the RTCDataChannel
\* whose handlers point at this connection ("none" before there is one),
\* `closeCalled` whether close() has been called, before or after
\* localConnectTo, `unread` the datagrams sent to it and not delivered yet.
NewConnection ==
    [state |-> "Closed", data |-> "undefined", conn |-> "new",
     channel |-> "none", closeCalled |-> "no", unread |-> 0]

Other(c) == IF c = "caller" THEN "callee" ELSE "caller"

\* Connection.prototype._setDataChannel
setDataChannel(cn) == [cn EXCEPT !.data = "channel", !.channel = "connecting"]

\* Connection.prototype.localConnectTo, up to its return: both states are
\* Opening and the caller holds the channel createDataChannel returned.
localConnectTo(cs) ==
    [cs EXCEPT !["caller"] = setDataChannel([cs["caller"] EXCEPT !.state = "Opening"]),
               !["callee"].state = "Opening"]

\* data.onopen and data.onclose as _setDataChannel installs them
onopen(cn) == [cn EXCEPT !.state = "Open", !.channel = "open"]
onclose(cn) == [cn EXCEPT !.state = "Closed", !.channel = "closed"]

\* Connection.prototype.close: this.data.close() raises a TypeError when
\* data is undefined or null, after state has been set to Closing.
close(cn) ==
    IF cn.data = "channel"
    THEN [cn EXCEPT !.state = "Closed",
                    !.data = "null",
                    !.conn = "closed",
                    !.channel = IF cn.channel \in {"connecting", "open"}
                                THEN "closing" ELSE cn.channel]
    ELSE [cn EXCEPT !.state = "Closing"]

\* ---------------------------------------------------------------- state

VARIABLES
    kind,      \* the strategy both Records were constructed with
    log,       \* log[l]: the Record of peer l
    walk,      \* walk[w]: a Walk object, or NoWalk before it is constructed
    now,       \* the cached game time NZJS.getTime() returns
    thrown,    \* the exception the last call raised, "none" when it returned
    wire,      \* a payload pack(since) returned, kept by the transport
    exported,  \* { t, d } objects earlier pack() calls without `since` wrote
               \* of entries the sender still holds
    fed,       \* the (time, state) pairs handed to record(), in call order
    late,      \* { t, d } objects of the entries inserted into the sender's
               \* log since the last advanceTo that returned, if one has
    repeated,  \* whether the last advanceTo that returned was called on a
               \* constructed walk with the time the walk already had
    input,     \* the player's live button and axis, and the chain of
               \* InputState objects pollNext has produced
    pad,       \* two keys, the composite buttons built from them, a mouse
               \* axis and its AxisButton
    irec,      \* an InputRecord, the InputReplay begun on it and the state
               \* its last stateAt returned
    conn       \* conn[c]: an RTC Connection and its data channel

\* The Records, their walks and ghosts, and the polled player.
records == <<kind, log, walk, now, thrown, wire, exported, fed, late, repeated,
             input>>

vars == <<kind, log, walk, now, thrown, wire, exported, fed, late, repeated, input, pad, irec, conn>>

NoWalk == [log |-> "none"]

\* Before any payload: nothing shipped, so the first pack starts before time 0
\* (netdebug.js packs since -.1).
NoPayload == [since |-> 0 - 1, payload |-> <<>>]

InitRecords(k) ==
    /\ kind = k
    /\ log = [l \in Logs |-> NewRecord(BaseState)]
    /\ walk = [w \in Walks |-> NoWalk]
    /\ now = 0
    /\ thrown = "none"
    /\ wire = NoPayload
    /\ exported = {}
    /\ fed = <<>>
    /\ late = {}
    /\ repeated = FALSE
    /\ input = NewInput

InitWith(k) ==
    /\ InitRecords(k)
    /\ pad = NewPad(FALSE)
    /\ irec = NewInputRecord("insert", 0)
    /\ conn = [c \in Peers |-> NewConnection]

Init == \E k \in Kinds : InitWith(k)

\* The { t, d } objects of the entries a record holds.
Held(rec) == Range(packed(rec.record, 0))

\* The input states of a player who leaves the axes at rest.
KeyStates == {s \in States : \A n \in Range(AxisNames) : s.axes[n] = 0}

\* ---------------------------------------------------------------- calls

\* Whether record(state, time) folds an entry into _base, which replaces the
\* _base object.
replacesBase(k, rec, state, time) ==
    /\ Len(Diff(k, rec.current, state)) > 0
    /\ rec.record # <<>>
    /\ rec.record[1].time < time - Window

\* Peer l calls record(state, time); the log holds at most `cap` entries
\* afterwards.  A walk that held the record's _base object keeps the old
\* object when the record replaces its own.
RecordCall(l, state, time, cap) ==
    LET after == record(kind, log[l], state, time)
    IN  /\ Len(after.record) <= cap
        /\ log' = [log EXCEPT ![l] = after]
        /\ walk' = [w \in Walks |->
                      IF walk[w].log = l /\ replacesBase(kind, log[l], state, time)
                      THEN [walk[w] EXCEPT !.shared = FALSE]
                      ELSE walk[w]]
        /\ thrown' = "none"
        /\ UNCHANGED <<kind, now>>

\* Peer `from` calls pack(since) and peer `to` calls unpack() on the result,
\* as in otherRecord.unpack(record.pack(since)).
SyncCall(from, to, since) ==
    LET payload == packed(log[from].record, since)
    IN  /\ from # to
        /\ Len(unpack(log[to], payload).record) <= MaxLen
        /\ log' = [log EXCEPT ![from] = pack(log[from], now),
                              ![to] = unpack(log[to], payload)]
        /\ thrown' = "none"
        /\ UNCHANGED <<kind, walk, now>>

\* What running walk(state) in place on walk w's state object does to the
\* record that object belongs to.
HookOnRecord(rec, w, hooked) ==
    IF w.shared
    THEN [rec EXCEPT !.base = hooked,
                     !.current = IF rec.curIsBase THEN hooked ELSE rec.current]
    ELSE rec

\* advanceTo(time) on the Walk object w, which the caller holds as walk[id]
\* or, when `constructing`, is being built by new Walk(record, start): a
\* throw inside the constructor leaves the caller with the Walk it had.
AdvanceCall(id, w, time, constructing) ==
    LET res == advanceTo(kind, w, log[w.log], time)
    IN  /\ thrown' = res.thrown
        /\ log' = [log EXCEPT ![w.log] = HookOnRecord(log[w.log], w, res.hooked)]
        /\ walk' = [x \in Walks |->
                      IF x = id
                      THEN (IF constructing /\ res.thrown # "none"
                            THEN walk[id] ELSE res.walk)
                      ELSE IF w.shared /\ walk[x] # NoWalk
                              /\ walk[x].log = w.log /\ walk[x].shared
                           THEN [walk[x] EXCEPT !.state = res.hooked]
                           ELSE walk[x]]
        /\ late' = IF res.thrown = "none" THEN {} ELSE late
        /\ repeated' = IF res.thrown = "none"
                       THEN ~constructing /\ time = w.time
                       ELSE repeated
        /\ UNCHANGED <<kind, now, wire, exported, fed, input, pad, irec, conn>>

\* record.beginWalk(start): new Walk(record, start).
BeginWalk(id, l, start) ==
    AdvanceCall(id, NewWalk(l, log[l]), start, TRUE)

\* walk.advanceTo(time) on a constructed Walk.
AdvanceTo(id, time) ==
    /\ walk[id] # NoWalk
    /\ AdvanceCall(id, walk[id], time, FALSE)

\* ------------------------------------------- two peers recording, syncing

\* The sender calls record(state, time) with any time.
Record == \E s \in KeyStates, t \in Times :
    RecordCall("snd", s, t, MaxLen) /\ UNCHANGED <<wire, exported, fed, late, repeated, input, pad, irec, conn>>

\* One peer packs since any time and the other unpacks the result.
Sync == \E from \in Logs, to \in Logs, since \in Times :
    SyncCall(from, to, since) /\ UNCHANGED <<wire, exported, fed, late, repeated, input, pad, irec, conn>>

Next ==
    \/ Record
    \/ Sync

Spec == Init /\ [][Next]_vars

\* A Record that is only recorded to.
SpecRecord == Init /\ [][Record]_vars

\* ------------------------------------------------------ the walked record

\* The sender calls record(state, time) with any time, on a log that is walked.
RecordWalked == \E s \in KeyStates, t \in Times :
    RecordCall("snd", s, t, MaxWalkLen) /\ UNCHANGED <<wire, exported, fed, late, repeated, input, pad, irec, conn>>

Begin == \E id \in Walks, start \in Times : BeginWalk(id, "snd", start)

Advance == \E id \in Walks, t \in Times : AdvanceTo(id, t)

NextWalk ==
    \/ RecordWalked
    \/ Begin
    \/ Advance

SpecWalk == Init /\ [][NextWalk]_vars

\* --------------------------------------------------- the packing sender

\* time.js updateTime: the cached clock moves on.
Tick ==
    /\ now < MaxTime
    /\ now' = now + 1
    /\ UNCHANGED <<kind, log, walk, thrown, wire, exported, fed, late, repeated, input, pad, irec, conn>>

\* The sender calls record(state) without a time: NZJS.getTime() is used.
RecordNow == \E s \in KeyStates :
    /\ RecordCall("snd", s, now, MaxLen)
    /\ exported' = exported \cap Held(log'["snd"])
    /\ UNCHANGED <<wire, fed, late, repeated, input, pad, irec, conn>>

\* The sender calls pack(since).
PackSince == \E since \in Times :
    /\ wire' = [since |-> since, payload |-> packed(log["snd"].record, since)]
    /\ log' = [log EXCEPT !["snd"] = pack(log["snd"], now)]
    /\ thrown' = "none"
    /\ UNCHANGED <<kind, walk, now, exported, fed, late, repeated, input, pad, irec, conn>>

\* The sender calls pack(): everything since the last call to pack().
Pack ==
    /\ log' = [log EXCEPT !["snd"] = pack(log["snd"], now)]
    /\ exported' = exported \cup Range(packed(log["snd"].record, log["snd"].lastpack))
    /\ thrown' = "none"
    /\ UNCHANGED <<kind, walk, now, wire, fed, late, repeated, input, pad, irec, conn>>

NextPack ==
    \/ Tick
    \/ RecordNow
    \/ PackSince
    \/ Pack

SpecPack == Init /\ [][NextPack]_vars

\* The sender calls record(state, time) with a time of the caller's choice.
RecordAt == \E s \in KeyStates, t \in Times :
    /\ RecordCall("snd", s, t, MaxLen)
    /\ exported' = exported \cap Held(log'["snd"])
    /\ UNCHANGED <<wire, fed, late, repeated, input, pad, irec, conn>>

NextPackAny ==
    \/ Tick
    \/ RecordAt
    \/ Pack

\* A sender that stamps its records itself and only ever calls pack().
SpecPackAny == Init /\ [][NextPackAny]_vars

\* ------------------------------------------ recording into a walked log

\* Whether record(state, time) on rec leaves one entry more than its pruning
\* left: _insertEntry has inserted the new entry.
inserts(k, rec, state, time) ==
    /\ Len(Diff(k, rec.current, state)) > 0
    /\ Len(record(k, rec, state, time).record)
         > Len(advanceBaseTo(k, rec, time - Window).record)

\* The sender calls record(state, time) with any time while walks are held.
RecordLate == \E s \in KeyStates, t \in Times :
    /\ RecordCall("snd", s, t, MaxLen)
    /\ late' = IF walk["w1"] # NoWalk /\ inserts(kind, log["snd"], s, t)
               THEN late \cup {[t |-> t, d |-> Diff(kind, log["snd"].current, s)]}
               ELSE late
    /\ UNCHANGED <<wire, exported, fed, repeated, input, pad, irec, conn>>

\* One walk is begun on the sender's log.
BeginLate == \E start \in Times :
    /\ walk["w1"] = NoWalk
    /\ BeginWalk("w1", "snd", start)

\* The walk is driven forward as new data arrives.
AdvanceLate == \E t \in Times :
    /\ walk["w1"] # NoWalk
    /\ t > walk["w1"].time
    /\ AdvanceTo("w1", t)

NextLate ==
    \/ RecordLate
    \/ BeginLate
    \/ AdvanceLate

SpecLate == Init /\ [][NextLate]_vars

\* ------------------------------------------------ payloads off the wire

\* The strings that are not a pack() output: no JSON at all, a JSON value
\* that is no array, and the payload with a null in place i.
MalformedDocs(payload) ==
    {UnparseableDoc, NullDoc, ObjectDoc}
        \cup {ArrayDoc(SpliceIn(payload, i, NullItem)) : i \in 1..(Len(payload) + 1)}

\* The receiver calls unpack(doc).
Receive(doc) ==
    LET res == unpackDoc(log["rcv"], doc)
    IN  /\ Len(res.rec.record) <= MaxLen
        /\ log' = [log EXCEPT !["rcv"] = res.rec]
        /\ thrown' = res.thrown
        /\ UNCHANGED <<kind, walk, now, wire, exported, fed, late, repeated, input, pad, irec, conn>>

\* The receiver is handed what the sender packed.
ReceivePacked == \E since \in Times :
    Receive(ArrayDoc(packed(log["snd"].record, since)))

\* The receiver is handed something else.
ReceiveMalformed == \E since \in Times :
    \E doc \in MalformedDocs(packed(log["snd"].record, since)) : Receive(doc)

NextUnpack ==
    \/ Record
    \/ ReceivePacked
    \/ ReceiveMalformed

SpecUnpack == Init /\ [][NextUnpack]_vars

\* ------------------------------------------------ overlapping deliveries

\* otherRecord.unpack(record.pack(since)) with any `since`, so that payloads
\* overlap; the transport keeps the last payload.
Deliver == \E since \in Times :
    /\ SyncCall("snd", "rcv", since)
    /\ wire' = [since |-> since, payload |-> packed(log["snd"].record, since)]
    /\ UNCHANGED <<exported, fed, late, repeated, input, pad, irec, conn>>

NextDeliver ==
    \/ RecordWalked
    \/ Deliver

SpecDeliver == Init /\ [][NextDeliver]_vars

\* ------------------------------------------------- recording, then replay

\* The time of the last state handed to record(), before every time if none.
LastFed == IF fed = <<>> THEN 0 - 1 ELSE fed[Len(fed)].time

\* record(state, time) at a time later than every earlier one, with every
\* recorded time still inside the window.
FeedCall(s, t) ==
    /\ t > LastFed
    /\ fed # <<>> => t - Window <= fed[1].time
    /\ RecordCall("snd", s, t, MaxLen)
    /\ fed' = Append(fed, [time |-> t, state |-> s])
    /\ UNCHANGED <<late, repeated, input, pad, irec, conn>>

\* The states are recorded first, at times after the log's initial base time.
Feed == \E s \in States, t \in 1..MaxTime :
    /\ walk["w1"] = NoWalk
    /\ FeedCall(s, t)
    /\ UNCHANGED <<wire, exported>>

\* beginWalk(start) on the recorded log, no later than the first record.
BeginReplay == \E start \in Times :
    /\ fed # <<>>
    /\ walk["w1"] = NoWalk
    /\ start <= fed[1].time
    /\ BeginWalk("w1", "snd", start)

\* The recorded time the walk `id` visits next: the earliest one after its own.
IsNextFed(id, i) ==
    /\ fed[i].time > walk[id].time
    /\ \A j \in DOMAIN fed : fed[j].time > walk[id].time => fed[i].time <= fed[j].time

\* advanceTo(ti) for the recorded times, in order.
AdvanceReplay == \E i \in DOMAIN fed :
    /\ walk["w1"] # NoWalk
    /\ IsNextFed("w1", i)
    /\ AdvanceTo("w1", fed[i].time)

NextReplay ==
    \/ Feed
    \/ BeginReplay
    \/ AdvanceReplay

\* The generic Record with the plain strategy.
SpecReplay == InitWith("plain") /\ [][NextReplay]_vars

\* ----------------------------------------------------- the polled player

\* keydown / mousedown and keyup / mouseup handlers of the button.
KeyDown ==
    /\ input' = [input EXCEPT !.button.willBeDown = TRUE]
    /\ UNCHANGED <<kind, log, walk, now, thrown, wire, exported, fed, late,
                   repeated, pad, irec, conn>>

KeyUp ==
    /\ input' = [input EXCEPT !.button.willBeDown = FALSE]
    /\ UNCHANGED <<kind, log, walk, now, thrown, wire, exported, fed, late,
                   repeated, pad, irec, conn>>

\* mousemove handler of the axis.
MouseMove == \E v \in AxisVals :
    /\ input' = [input EXCEPT !.axis = v]
    /\ UNCHANGED <<kind, log, walk, now, thrown, wire, exported, fed, late,
                   repeated, pad, irec, conn>>

\* currentState = currentState.pollNext(), once per game tick.
PollNext ==
    /\ Len(input.states) <= MaxPolls
    /\ input' = pollNext(input)
    /\ UNCHANGED <<kind, log, walk, now, thrown, wire, exported, fed, late,
                   repeated, pad, irec, conn>>

NextInput ==
    \/ KeyDown
    \/ KeyUp
    \/ MouseMove
    \/ PollNext

SpecInput == InitWith("input") /\ [][NextInput]_vars

\* ------------------------------------------- live polling, then replay

\* Whether the button was down at tick i of the recorded ticks; before the
\* first poll() isDown is false.
isDown(i, n) == IF i = 0 THEN FALSE ELSE fed[i].state.buttons[n].down

\* What down(), pressed() and released() of the live button read at tick i:
\* poll() has moved isDown to wasDown and taken the new isDown.
LivePoll(i, n) ==
    Button(isDown(i, n),
           isDown(i, n) /\ ~isDown(i - 1, n),
           ~isDown(i, n) /\ isDown(i - 1, n))

\* One game tick: the polled state is recorded at the tick's time, the ticks
\* being at times 1, 2, ...
Poll == \E s \in States :
    /\ Len(fed) < MaxTime
    /\ FeedCall(s, Len(fed) + 1)
    /\ UNCHANGED <<wire, exported>>

NextPoll ==
    \/ Poll
    \/ BeginReplay
    \/ AdvanceReplay

\* The generic Record with the input strategy, fed by live polling.
SpecPoll == InitWith("input") /\ [][NextPoll]_vars

\* ------------------------------------ a walk kept inside the window

\* The walk is begun on the fresh log, before anything is recorded.
BeginKept == \E start \in Times :
    /\ walk["w1"] = NoWalk
    /\ fed = <<>>
    /\ BeginWalk("w1", "snd", start)

\* record(state, time) at increasing times, none further than the window
\* ahead of the walk.
FeedKept == \E s \in States, t \in Times :
    /\ walk["w1"] # NoWalk
    /\ t > LastFed
    /\ walk["w1"].time >= t - Window
    /\ RecordCall("snd", s, t, MaxLen)
    /\ fed' = Append(fed, [time |-> t, state |-> s])
    /\ UNCHANGED <<wire, exported, late, repeated, input, pad, irec, conn>>

\* The walk follows.
AdvanceKept == \E t \in Times : AdvanceTo("w1", t)

NextKept ==
    \/ BeginKept
    \/ FeedKept
    \/ AdvanceKept

\* The generic Record with the plain strategy, walked while it records.
SpecKept == InitWith("plain") /\ [][NextKept]_vars

\* ------------------------------------------- recording in time order

\* record(state, time) with a time later than the time of every record()
\* before it; nothing holds the log back from pruning.
RecordForward == \E s \in States, t \in Times :
    /\ log["snd"].curIsBase \/ t > log["snd"].curtime
    /\ RecordCall("snd", s, t, MaxLen)
    /\ UNCHANGED <<wire, exported, fed, late, repeated, input, pad, irec, conn>>

SpecForward == Init /\ [][RecordForward]_vars

\* ---------------------------------------------- walks of an unpruned log

\* record(state, time) with any time no later than the window: nothing is
\* ever older than time - window.
RecordNear == \E s \in States, t \in 0..Window :
    /\ RecordCall("snd", s, t, MaxLen)
    /\ UNCHANGED <<wire, exported, fed, late, repeated, input, pad, irec, conn>>

NextTwin ==
    \/ RecordNear
    \/ BeginLate
    \/ Advance

\* The generic Record with the plain strategy, whose walk hook does nothing.
SpecTwin == InitWith("plain") /\ [][NextTwin]_vars

\* -------------------------------------- incremental sync, receiver replay

\* The last timestamp already shipped to the receiver (netdebug.js packs
\* since -.1 the first time).
LastShipped ==
    IF wire.payload = <<>> THEN NoPayload.since
    ELSE wire.payload[Len(wire.payload)].t

\* The sender records the next input state.
FeedInput == \E s \in States, t \in Times :
    /\ FeedCall(s, t)
    /\ UNCHANGED <<wire, exported>>

\* otherRecord.unpack(record.pack(since)), since being the last timestamp
\* already shipped, when there is something new to ship.
Ship ==
    /\ LastFed > LastShipped
    /\ SyncCall("snd", "rcv", LastShipped)
    /\ wire' = [since |-> LastShipped,
                payload |-> packed(log["snd"].record, LastShipped)]
    /\ UNCHANGED <<exported, fed, late, repeated, input, pad, irec, conn>>

\* The receiver opens a walk on its own log, inside what was shipped.
BeginRemote == \E start \in Times :
    /\ walk["w1"] = NoWalk
    /\ start <= LastShipped
    /\ BeginWalk("w1", "rcv", start)

\* The receiver advances its walk through increasing times.
AdvanceRemote == \E t \in Times :
    /\ walk["w1"] # NoWalk
    /\ t > walk["w1"].time
    /\ t <= LastShipped
    /\ AdvanceTo("w1", t)

NextSync ==
    \/ FeedInput
    \/ Ship
    \/ BeginRemote
    \/ AdvanceRemote

\* Two input Records, as recordTest in netdebug.js constructs them.
SpecSync == InitWith("input") /\ [][NextSync]_vars

\* ------------------------------------------------ packing by time range

\* The sender records into a log long enough to be packed in two ranges.
RecordLong == \E s \in KeyStates, t \in Times :
    RecordCall("snd", s, t, MaxRangeLen) /\ UNCHANGED <<wire, exported, fed, late, repeated, input, pad, irec, conn>>

SpecRange == Init /\ [][RecordLong]_vars

\* ------------------------------------------------- composites, polled

\* keydown and keyup listeners of the two KeyButtons.
PadKey == \E k \in {"key1", "key2"}, d \in BOOLEAN :
    /\ pad' = [pad EXCEPT ![k].willBeDown = d]
    /\ UNCHANGED <<records, irec, conn>>

\* mousemove listener of the MouseAxis.
PadMouseMove == \E v \in AxisVals :
    /\ pad' = [pad EXCEPT !.axis.value = v]
    /\ UNCHANGED <<records, irec, conn>>

\* One game tick polls every composite.
PollComposites ==
    /\ pad' = pollAll(pad)
    /\ UNCHANGED <<records, irec, conn>>

\* One game tick polls the AxisButton.
PollAxisButton ==
    /\ pad' = axisButtonPoll(pad)
    /\ UNCHANGED <<records, irec, conn>>

NextPad ==
    \/ PadKey
    \/ PadMouseMove
    \/ PollComposites
    \/ PollAxisButton

InitPad ==
    /\ InitRecords("input")
    /\ \E callable \in BOOLEAN : pad = NewPad(callable)
    /\ irec = NewInputRecord("insert", 0)
    /\ conn = [c \in Peers |-> NewConnection]

SpecPad == InitPad /\ [][NextPad]_vars

\* ------------------------------------------- an InputRecord fed by diffs

\* record.apply(diff) with a diff of at most n keyframes.
ApplyCall(diff) ==
    /\ Len(irec.keyframes) + Len(diff) <= MaxFrames
    /\ irec' = inputRecordApply(irec, diff)
    /\ UNCHANGED <<records, pad, conn>>

InputApply == \E diff \in DiffsUpTo(MaxDiffLen) : ApplyCall(diff)

\* record.record(state, time)
InputRecordCall ==
    /\ irec' = inputRecordRecord(irec)
    /\ UNCHANGED <<records, pad, conn>>

NextKeyframes ==
    \/ InputApply
    \/ InputRecordCall

\* An InputRecord of either version, constructed at game time 0 or 1.
InitKeyframes ==
    /\ InitRecords("input")
    /\ pad = NewPad(FALSE)
    /\ \E version \in {"insert", "push"}, time \in 0..1 :
          irec = NewInputRecord(version, time)
    /\ conn = [c \in Peers |-> NewConnection]

SpecKeyframes == InitKeyframes /\ [][NextKeyframes]_vars

\* ---------------------------------------------------- an InputReplay

\* The keyframes a replayed InputRecord holds at most.
MaxReplayed == 2

\* record.apply(diff) with the diff of one keyframe.
ApplyOne == \E diff \in DiffsUpTo(1) :
    /\ Len(irec.keyframes) < MaxReplayed
    /\ ApplyCall(diff)

\* replay.stateAt(time)
StateAt == \E time \in Times :
    /\ irec' = stateAt(irec, time)
    /\ UNCHANGED <<records, pad, conn>>

NextStateAt ==
    \/ ApplyOne
    \/ StateAt

\* An InputRecord of either version constructed at game time 0 and the
\* InputReplay begun on it.
InitStateAt ==
    /\ InitRecords("input")
    /\ pad = NewPad(FALSE)
    /\ \E version \in {"insert", "push"} : irec = NewInputRecord(version, 0)
    /\ conn = [c \in Peers |-> NewConnection]

SpecStateAt == InitStateAt /\ [][NextStateAt]_vars

\* ------------------------------------------------ two RTC connections

\* caller.localConnectTo(callee), once.
LocalConnectTo ==
    /\ conn["caller"].channel = "none"
    /\ conn["caller"].conn = "new"
    /\ conn' = localConnectTo(conn)
    /\ UNCHANGED <<records, pad, irec>>

\* calleec.ondatachannel: the caller's channel arrives at the callee.
OnDataChannel ==
    /\ conn["callee"].channel = "none"
    /\ conn["caller"].channel \in {"connecting", "open"}
    /\ conn["callee"].conn = "new"
    /\ conn' = [conn EXCEPT !["callee"] = setDataChannel(conn["callee"])]
    /\ UNCHANGED <<records, pad, irec>>

\* The open event of c's channel, while both peer connections are up.
OnOpen == \E c \in Peers :
    /\ conn[c].channel = "connecting"
    /\ conn[c].conn = "new"
    /\ conn[Other(c)].conn = "new"
    /\ conn' = [conn EXCEPT ![c] = onopen(conn[c])]
    /\ UNCHANGED <<records, pad, irec>>

\* The other end went away: c's channel starts closing.
RemoteClose == \E c \in Peers :
    /\ conn[c].channel \in {"connecting", "open"}
    /\ conn[Other(c)].conn = "closed"
    /\ conn' = [conn EXCEPT ![c].channel = "closing"]
    /\ UNCHANGED <<records, pad, irec>>

\* The close event of c's channel.
OnClose == \E c \in Peers :
    /\ conn[c].channel = "closing"
    /\ conn' = [conn EXCEPT ![c] = onclose(conn[c])]
    /\ UNCHANGED <<records, pad, irec>>

\* c.close(), once per connection.
Close == \E c \in Peers :
    /\ conn[c].closeCalled = "no"
    /\ conn' = [conn EXCEPT ![c] =
                  [close(conn[c]) EXCEPT !.closeCalled =
                      IF conn["caller"].channel = "none" THEN "before"
                                                         ELSE "after"]]
    /\ UNCHANGED <<records, pad, irec>>

\* c.send(datagram) on an open channel.
Send == \E c \in Peers :
    /\ conn[c].data = "channel"
    /\ conn[c].channel = "open"
    /\ conn[Other(c)].unread < MaxUnread
    /\ conn' = [conn EXCEPT ![Other(c)].unread = @ + 1]
    /\ UNCHANGED <<records, pad, irec>>

\* data.onmessage of c's channel: onrecv gets the datagram.
OnMessage == \E c \in Peers :
    /\ conn[c].unread > 0
    /\ conn[c].channel = "open"
    /\ conn' = [conn EXCEPT ![c].unread = @ - 1]
    /\ UNCHANGED <<records, pad, irec>>

NextRTC ==
    \/ LocalConnectTo
    \/ OnDataChannel
    \/ OnOpen
    \/ RemoteClose
    \/ OnClose
    \/ Close
    \/ Send
    \/ OnMessage

SpecRTC == InitWith("plain") /\ [][NextRTC]_vars

\* ================================================================ claims

Sorted(entries) ==
    \A i \in DOMAIN entries, j \in DOMAIN entries :
        i < j => entries[i].time <= entries[j].time

\* The entries at or after `since`, in the record's order.
Since(entries, since) == SelectSeq(entries, LAMBDA e : e.time >= since)

\* C1 (checked under SpecReplay): a log fed states S0..Sn at strictly
\* increasing times inside the window; a walk begun on it and advanced to
\* each ti in order holds exactly Si whenever it stands at ti.
C1_ReplayFidelity ==
    walk["w1"] # NoWalk =>
        \A i \in DOMAIN fed :
            fed[i].time = walk["w1"].time => walk["w1"].state = fed[i].state

\* C2 (checked under Spec): after any sequence of record and unpack calls,
\* with times arriving in any order, each log's entry sequence is sorted by
\* non-decreasing time.
C2_EntriesSorted == \A l \in Logs : Sorted(log[l].record)

\* C3 (checked under SpecWalk): advanceTo(t) with t earlier than the walk's
\* time throws, and leaves the walk's state and time, and the record, as they
\* were: the hook has not run and no delta was applied.
C3_RewindFails ==
    [][\A id \in Walks, t \in Times :
         (/\ walk[id] # NoWalk
          /\ t < walk[id].time
          /\ AdvanceTo(id, t))
         => (thrown' = "rewind" /\ walk' = walk /\ log' = log)]_vars

\* A rewind was refused on a walk whose state carries a one-shot flag the
\* hook would have cleared (with _basetime 0 no beginWalk can have thrown).
C3_Witness ==
    /\ thrown = "rewind"
    /\ log["snd"].basetime = 0
    /\ walk["w1"] # NoWalk
    /\ walk["w1"].state.buttons["b1"].pressed

\* C4 (checked under SpecRecord): after any sequence of record calls, no
\* entry older than current_time - window remains in the entry sequence.
C4_WindowBound ==
    \A i \in DOMAIN log["snd"].record :
        log["snd"].record[i].time >= log["snd"].curtime - Window

\* C5 (checked under SpecWalk): beginWalk(start) with start earlier than
\* base_time does not fail; it returns a walk at base_time holding the base.
C5_BeginWalkBestEffort ==
    [][\A id \in Walks, start \in Times :
         (/\ start < log["snd"].basetime
          /\ BeginWalk(id, "snd", start))
         => (/\ thrown' = "none"
             /\ walk'[id].time = log["snd"].basetime
             /\ walk'[id].state = log["snd"].base)]_vars

\* What a caller reads off an input state: down-states and axis values.
Content(s) ==
    [down |-> [n \in DOMAIN s.buttons |-> s.buttons[n].down], axes |-> s.axes]

\* C6 (checked under SpecSync): the sender records at increasing times and
\* ships pack(since) payloads, since being the last timestamp shipped; a walk
\* on the receiver's log reports, at its time T, the down-states and axis
\* values of the latest recorded state with time <= T.
C6_ReceiverReplay ==
    walk["w1"] # NoWalk =>
        LET past == {i \in DOMAIN fed : fed[i].time <= walk["w1"].time}
        IN  past # {} =>
                Content(walk["w1"].state) = Content(fed[Max(past)].state)

\* The { t, d } payload of the entries with a <= time < b, in log order.
RangeOf(entries, a, b) ==
    packed(SelectSeq(entries, LAMBDA e : e.time >= a /\ e.time < b), 0)

\* The states a walk holds as it is advanced to every entry time from t on.
RECURSIVE cursorFrom(_, _, _, _)
cursorFrom(k, w, rec, t) ==
    IF t > MaxTime THEN <<>>
    ELSE IF \E i \in DOMAIN rec.record : rec.record[i].time = t
         THEN LET res == advanceTo(k, w, rec, t)
              IN  <<res.walk.state>> \o cursorFrom(k, res.walk, rec, t + 1)
         ELSE cursorFrom(k, w, rec, t + 1)

\* The materialized state sequence of a fresh Record holding `entries`.
CursorStates(k, entries) ==
    LET rec == [NewRecord(BaseState) EXCEPT !.record = entries]
    IN  cursorFrom(k, NewWalk("rcv", rec), rec, 0)

\* C7 (checked under SpecRange): for a <= b <= c, unpacking the payload of
\* [a,b) and then the payload of [b,c) into a fresh log gives the same
\* materialized state sequence as unpacking the payload of [a,c).
C7_SplitRanges ==
    \A a \in Times, b \in Times, c \in 0..(MaxTime + 1) :
        (a <= b /\ b <= c) =>
            LET E == log["snd"].record
                two == unpackInto(unpackInto(<<>>, RangeOf(E, a, b)), RangeOf(E, b, c))
                one == unpackInto(<<>>, RangeOf(E, a, c))
            IN  CursorStates(kind, two) = CursorStates(kind, one)

\* C8 (checked under Spec): unpacking pack(since) into a fresh Record gives
\* exactly the log's entries at or after `since`, in order and multiplicity.
C8_RoundTrip ==
    \A l \in Logs, since \in Times :
        unpack(NewRecord(BaseState), packed(log[l].record, since)).record
            = Since(log[l].record, since)

\* C9 (checked under SpecPack): a pack call, with or without `since`,
\* changes only last_pack_time: the entries, base, base_time, current and
\* current_time of every record are as before, and so is every walk.
C9_PackIsPure ==
    [][(Pack \/ PackSince)
         => (/\ \A l \in Logs :
                  /\ log'[l].record = log[l].record
                  /\ log'[l].base = log[l].base
                  /\ log'[l].basetime = log[l].basetime
                  /\ log'[l].current = log[l].current
                  /\ log'[l].curtime = log[l].curtime
             /\ walk' = walk)]_vars

\* The sender has packed, after the clock moved, a record that holds entries.
C9_Witness ==
    /\ log["snd"].lastpack > 0
    /\ Len(log["snd"].record) >= 2
    /\ wire.payload # <<>>

\* C10 (checked under SpecPack): an entry that one pack() call without
\* `since` serialized is not serialized again by a later one.
C10_NoRepack ==
    [][Pack => Range(packed(log["snd"].record, log["snd"].lastpack))
                 \cap exported = {}]_vars

\* C11 (checked under SpecPackAny): a sequence of pack() calls without
\* `since` skips no recorded entry, whatever times record was given: after
\* each pack() every entry the log holds has been serialized by one of them.
C11_PackComplete ==
    [][Pack => Held(log'["snd"]) \subseteq exported']_vars

\* C12 (checked under SpecWalk): beginWalk and advanceTo, returning or
\* throwing, leave every field of the log as it was, also when the hook
\* modifies the state it is given in place.
C12_WalkLeavesLog ==
    [][(Begin \/ Advance) => log' = log]_vars

\* The state after the diffs of `entries` are applied to s, in order.
RECURSIVE applyEntries(_, _, _)
applyEntries(k, s, entries) ==
    IF entries = <<>> THEN s
    ELSE applyEntries(k, Apply(k, s, Head(entries).diff), Tail(entries))

\* The entries with a < time <= b, in the record's order.
Between(entries, a, b) == SelectSeq(entries, LAMBDA e : e.time > a /\ e.time <= b)

\* C13 (checked under SpecLate): a walk at time T is advanced to T'; when
\* the log's entries with time in (T, T'] were all inserted after the walk's
\* last advanceTo, every entry inserted since then with time in (T, T'] is
\* still held and the call applies them all to the walk's state.
C13_LateEntriesSeen ==
    [][\A t \in Times :
         LET w == walk["w1"]
             due == Between(log["snd"].record, w.time, t)
         IN  (/\ w # NoWalk
              /\ t >= w.time
              /\ Range(packed(due, 0)) \subseteq late
              /\ AdvanceTo("w1", t))
             => (/\ {p \in late : p.t > w.time /\ p.t <= t} \subseteq Held(log["snd"])
                 /\ walk'["w1"].state
                      = applyEntries(kind, WalkHook(kind, w.state), due))]_vars

\* C14 as stated (checked under SpecWalk): advanceTo(T) on a walk that is
\* already at T leaves the walk's state and time as they were.
C14_RepeatIsNoOp ==
    [][\A t \in Times :
         (/\ walk["w1"] # NoWalk
          /\ t = walk["w1"].time
          /\ AdvanceTo("w1", t))
         => (walk'["w1"].state = walk["w1"].state /\ walk'["w1"].time = t)]_vars

\* C14 amended (checked under SpecWalk): advanceTo(T) with T not earlier
\* than the walk's time returns with the walk's time at T, whether or not an
\* entry was applied; when T is the time the walk already had, no entry is
\* applied again and the state is the hook's result on the state before.
C14_RepeatRunsHookOnly ==
    [][\A t \in Times :
         (/\ walk["w1"] # NoWalk
          /\ t >= walk["w1"].time
          /\ AdvanceTo("w1", t))
         => (/\ thrown' = "none"
             /\ walk'["w1"].time = t
             /\ t = walk["w1"].time
                  => walk'["w1"].state = WalkHook(kind, walk["w1"].state))]_vars

\* A repeated advanceTo has returned on a walk standing at the time of an
\* entry that presses b1: the button is down and its one-shot flag is gone.
C14_Witness ==
    /\ repeated
    /\ kind = "input"
    /\ walk["w1"] # NoWalk
    /\ \E i \in DOMAIN log["snd"].record :
         /\ log["snd"].record[i].time = walk["w1"].time
         /\ BtnChange("b1", TRUE) \in Range(log["snd"].record[i].diff)
    /\ walk["w1"].state.buttons["b1"] = Button(TRUE, FALSE, FALSE)

\* C15 (checked under SpecReplay): record(state, time) with a state whose
\* delta against the current state is empty leaves every field of the log as
\* it was: no entry appended, nothing pruned, no time moved.
C15_EmptyDeltaNoOp ==
    [][\A s \in States, t \in Times :
         (/\ Diff(kind, log["snd"].current, s) = <<>>
          /\ FeedCall(s, t))
         => log' = log]_vars

\* The last two record calls were given the same state: the log holds the
\* entry of the first and still carries the first one's time.
C15_Witness ==
    /\ Len(fed) = 2
    /\ fed[1].state = fed[2].state
    /\ fed[1].state # BaseState
    /\ Len(log["snd"].record) = 1
    /\ log["snd"].curtime = fed[1].time

\* C16 (checked under SpecUnpack): unpack of a payload that is not a
\* sequence of { t, d } records raises an error and leaves the receiver's
\* entries as they were.
C16_MalformedRejected ==
    [][\A since \in Times :
         \A doc \in MalformedDocs(packed(log["snd"].record, since)) :
            Receive(doc)
            => (thrown' # "none" /\ log'["rcv"].record = log["rcv"].record)]_vars

\* The places of the entries whose delta names button n.
Touching(entries, n) ==
    {i \in DOMAIN entries :
        \E c \in Range(entries[i].diff) : c.kind = "btn" /\ c.name = n}

\* The down-state the last delta for button n among `entries` sets.
LastDown(entries, n) ==
    LET e == entries[Max(Touching(entries, n))]
    IN  (CHOOSE c \in Range(e.diff) : c.kind = "btn" /\ c.name = n).down

\* C17 (checked under SpecSync): after a cursor step from T to T', a button
\* reads pressed (released) exactly when the step applied a delta for it,
\* the last of them setting it down (up); a step that applies no delta for
\* the button leaves both flags false, whatever they read before.
C17_OneShotFlags ==
    [][\A t \in Times :
         LET w == walk["w1"]
             due == Between(log["rcv"].record, w.time, t)
         IN  (/\ w # NoWalk
              /\ t >= w.time
              /\ AdvanceTo("w1", t))
             => \A n \in Range(ButtonNames) :
                  LET hit == Touching(due, n) # {}
                      b == walk'["w1"].state.buttons[n]
                  IN  /\ b.pressed = (hit /\ LastDown(due, n))
                      /\ b.released = (hit /\ ~LastDown(due, n))]_vars

\* The receiver's walk stands beyond an entry that pressed b1 and has taken
\* a step since the one that applied it: b1 is down, its flags are false.
C17_Witness ==
    /\ walk["w1"] # NoWalk
    /\ walk["w1"].log = "rcv"
    /\ \E i \in DOMAIN log["rcv"].record :
         /\ log["rcv"].record[i].time > 0
         /\ log["rcv"].record[i].time < walk["w1"].time
         /\ BtnChange("b1", TRUE) \in Range(log["rcv"].record[i].diff)
         /\ Touching(Between(log["rcv"].record, log["rcv"].record[i].time,
                             walk["w1"].time), "b1") = {}
    /\ walk["w1"].state.buttons["b1"] = Button(TRUE, FALSE, FALSE)

\* C18 (checked under SpecPoll): a walk of the recorded log that stands at
\* the time of a recorded tick reads, for every button, the down-state and
\* the pressed and released flags the live button read at that tick.
C18_ReplayEqualsLive ==
    \A i \in DOMAIN fed :
        (walk["w1"] # NoWalk /\ walk["w1"].time = fed[i].time)
        => \A n \in Range(ButtonNames) :
              walk["w1"].state.buttons[n] = LivePoll(i, n)

\* C19 (checked under SpecSync): record(S2, t) leaves as the log's current
\* state apply(S1, diff(S1, S2)), S1 being the current state before; by the
\* round-trip law that state equals S2.
C19_InputRoundTrip ==
    [][\A s \in States, t \in Times :
         FeedCall(s, t)
         => (/\ Apply(kind, log["snd"].current,
                      Diff(kind, log["snd"].current, s)) = s
             /\ log'["snd"].current = s)]_vars

\* C20 (checked under SpecSync): diff(S, S) is empty for the log's current
\* state S, so record(S, t) appends no entry.
C20_IdenticalIsEmpty ==
    [][\A s \in States, t \in Times :
         (s = log["snd"].current /\ FeedCall(s, t))
         => (/\ Diff(kind, s, s) = <<>>
             /\ log'["snd"].record = log["snd"].record)]_vars

\* How many of the entries hold the time and delta of the { t, d } object p.
Copies(entries, p) ==
    Cardinality({i \in DOMAIN entries :
                    entries[i].time = p.t /\ entries[i].diff = p.d})

\* C21 (checked under SpecDeliver): unpack of a pack(since) payload leaves
\* the target with one more copy of every delivered entry than it had, also
\* of the entries an earlier, overlapping payload has delivered already.
C21_DuplicatesKept ==
    [][\A since \in Times :
         (SyncCall("snd", "rcv", since) /\ wire'.since = since)
         => \A p \in Range(packed(log["snd"].record, since)) :
               Copies(log'["rcv"].record, p)
                 = Copies(log["rcv"].record, p)
                     + Copies(log["snd"].record, p)]_vars

\* C22 (checked under SpecInput): what is read through an InputState whose
\* pollNext has returned stays as it is, whatever events and polls follow.
C22_PolledIsImmutable ==
    [][\A i \in 1..(Len(input.states) - 1) :
         ReadThrough(input', input'.states[i])
           = ReadThrough(input, input.states[i])]_vars

\* The first polled state still reads the button up and the axis at rest
\* while the live button is down and the axis has moved.
C22_Witness ==
    /\ Len(input.states) > 2
    /\ ReadThrough(input, input.states[1]).button.wasDown = FALSE
    /\ ReadThrough(input, input.states[1]).axis = 0
    /\ down(input.button)
    /\ input.axis # 0

\* What the button read during tick i: through the state polled at that tick,
\* or, for the newest state, off the live button.
TickRead(i) == ReadThrough(input, input.states[i]).button

\* Whether the button was down during the tick before tick i; before the
\* first tick it was not.
DownBefore(i) == IF i = 1 THEN FALSE ELSE TickRead(i - 1).wasDown

\* C23 (checked under SpecInput): at every tick pressed() is true exactly
\* when the button is down and was not down the tick before, released() is
\* true exactly when it is up and was down the tick before; both are false
\* on the ticks through which the button is held.
C23_FireOnce ==
    \A i \in DOMAIN input.states :
        /\ TickRead(i).wasPressed = (TickRead(i).wasDown /\ ~DownBefore(i))
        /\ TickRead(i).wasReleased = (~TickRead(i).wasDown /\ DownBefore(i))

\* The button went down, was held for a tick and has now been let go.
C23_Witness ==
    /\ Len(input.states) = 4
    /\ TickRead(2).wasPressed
    /\ TickRead(3).wasDown /\ ~TickRead(3).wasPressed
    /\ TickRead(4).wasReleased

\* C24 (checked under Spec): no Record holds an entry older than its base
\* time.
C24_EntriesAfterBase ==
    \A l \in Logs : \A i \in DOMAIN log[l].record :
        log[l].record[i].time >= log[l].basetime

\* C25 (checked under SpecRecord): a record(state, time) call whose delta is
\* not empty leaves the base time at time - window.
C25_BaseAtWindow ==
    [][\A s \in States, t \in Times :
         (/\ Diff(kind, log["snd"].current, s) # <<>>
          /\ RecordCall("snd", s, t, MaxLen))
         => log'["snd"].basetime = t - Window]_vars

\* The entries in ascending time order, entries of one time in the order given.
RECURSIVE ByTime(_)
ByTime(entries) ==
    IF entries = <<>> THEN <<>>
    ELSE LET first == Head(entries)
             rest == ByTime(Tail(entries))
         IN  SelectSeq(rest, LAMBDA e : e.time < first.time)
               \o <<first>>
               \o SelectSeq(rest, LAMBDA e : e.time >= first.time)

\* C26 (checked under SpecLate): advanceTo(T') on a walk at time T <= T'
\* leaves the walk's state as the log's entries with time in (T, T'], all of
\* them and in ascending time order, make it from the state the hook left.
C26_AppliesExactlyDue ==
    [][\A t \in Times :
         LET w == walk["w1"]
         IN  (/\ w # NoWalk
              /\ t >= w.time
              /\ AdvanceTo("w1", t))
             => walk'["w1"].state
                  = applyEntries(kind, WalkHook(kind, w.state),
                                 ByTime(Between(log["snd"].record, w.time, t)))]_vars

\* What the deltas of everything recorded up to time t make of the original
\* base: with the plain strategy, the last state recorded at a time <= t.
RecordedAsOf(t) ==
    LET past == {i \in DOMAIN fed : fed[i].time <= t}
    IN  IF past = {} THEN BaseState ELSE fed[Max(past)].state

\* C27 (checked under SpecKept): the walk is never further than the window
\* behind a recorded time; after advanceTo(T) its state is the original base
\* with every delta recorded at a time <= T applied, in time order.
C27_PruningLosesNothing ==
    [][\A t \in Times :
         (/\ walk["w1"] # NoWalk
          /\ t >= walk["w1"].time
          /\ AdvanceTo("w1", t))
         => walk'["w1"].state = RecordedAsOf(t)]_vars

\* The times of the entries.
TimesOf(entries) == {entries[i].time : i \in DOMAIN entries}

\* C28 (checked under SpecDeliver): in no Record, fed by record or only by
\* unpack, is the newest entry more than the window later than the oldest.
C28_SpanWithinWindow ==
    \A l \in Logs :
        log[l].record # <<>> =>
            \A a \in TimesOf(log[l].record), b \in TimesOf(log[l].record) :
                b - a <= Window

\* Whether every entry is later than the one before it.
Increasing(entries) ==
    \A i \in DOMAIN entries, j \in DOMAIN entries :
        i < j => entries[i].time < entries[j].time

\* C29 (checked under SpecRecord): the sender's entries, each later than the
\* one before, are cut at any time into an earlier and a later payload;
\* unpacked in either order into a fresh log the two payloads leave the same
\* entry sequence.
C29_EitherOrder ==
    \A cut \in Times :
        Increasing(log["snd"].record) =>
            LET P1 == RangeOf(log["snd"].record, 0, cut)
                P2 == RangeOf(log["snd"].record, cut, MaxTime + 1)
            IN  unpackInto(unpackInto(<<>>, P1), P2)
                  = unpackInto(unpackInto(<<>>, P2), P1)

C33_BasePlusEntries ==
    applyEntries(kind, log["snd"].base, log["snd"].record) = log["snd"].current

\* An entry has been folded into the base and two entries are retained.
C33_Witness ==
    /\ log["snd"].base # BaseState
    /\ Len(log["snd"].record) = 2
    /\ log["snd"].current # log["snd"].base

\* A cursor created now on log l and advanced to `time`.
FreshCursor(l, time) == advanceTo(kind, NewWalk(l, log[l]), log[l], time)

\* C34 (checked under SpecTwin): with a hook that does nothing and a log
\* that never prunes, the walk held since earlier and a walk begun now, both
\* at the same time T, hold equal states.
C34_CursorsAgree ==
    walk["w1"] # NoWalk =>
        LET fresh == FreshCursor("snd", walk["w1"].time)
        IN  fresh.thrown = "none" => fresh.walk.state = walk["w1"].state

\* C35 (checked under SpecRecord): after a record(state, time) call whose
\* delta is not empty the log holds an entry with that time and that delta.
C35_InsertKeepsEntry ==
    [][\A s \in States, t \in Times :
         (/\ Diff(kind, log["snd"].current, s) # <<>>
          /\ RecordCall("snd", s, t, MaxLen))
         => \E i \in DOMAIN log'["snd"].record :
               log'["snd"].record[i] = Entry(t, Diff(kind, log["snd"].current, s))]_vars

\* C32 (checked under SpecPad): at the poll() of an AxisButton that was not
\* down and whose axis value is now inside [minDown, maxDown], pressed()
\* reads true afterwards; at the poll() of one that was down and whose axis
\* value is now outside, released() reads true afterwards.
C32_AxisFireOnce ==
    [][PollAxisButton =>
         LET val == pad.axis.value
             inside == val >= MinDown /\ val <= MaxDown
         IN  /\ (inside /\ ~down(pad.axisButton)) => pressed(pad'.axisButton)
             /\ (~inside /\ down(pad.axisButton)) => released(pad'.axisButton)]_vars

\* The composites that are buttons.
Composites == {"andB", "orB", "notB"}

\* What the children of composite c make of it: the isDown its poll() computes.
ChildrenDown(p, c) ==
    CASE c = "andB" -> p.key1.isDown /\ p.key2.isDown
      [] c = "orB" -> p.key1.isDown \/ p.key2.isDown
      [] c = "notB" -> ~p.key1.isDown

\* C38 (checked under SpecPad): at a tick that polls all the composites
\* sharing key1 and key2, every composite that has been polled before, was
\* not down before the tick and is down after it reads pressed().
C38_SharedEdge ==
    [][PollComposites =>
         \A c \in Composites :
            (/\ down(pad[c]) = ChildrenDown(pad, c)
             /\ ~down(pad[c])
             /\ down(pad'[c]))
            => pressed(pad'[c])]_vars

\* Keyframes in ascending order of time.
SortedFrames(keyframes) ==
    \A i, j \in DOMAIN keyframes : i < j => keyframes[i].time <= keyframes[j].time

\* C31 (checked under SpecKeyframes): after apply(diff) every keyframe of the
\* diff at or after the epoch time is among the record's keyframes, and the
\* keyframes are sorted by time.
C31_InsertKeepsSorted ==
    [][\A diff \in DiffsUpTo(MaxDiffLen) :
         (ApplyCall(diff) /\ irec'.applied = diff)
         => /\ \A i \in DOMAIN diff :
                 diff[i].time >= irec.epochTime
                 => diff[i] \in Range(irec'.keyframes)
            /\ SortedFrames(irec'.keyframes)]_vars

\* C36 (checked under SpecStateAt): no stateAt call lowers the replay's time.
C36_ReplayTimeMonotonic ==
    [][\A time \in Times :
         (StateAt /\ irec' = stateAt(irec, time))
         => irec'.replay.time >= irec.replay.time]_vars

\* C37 (checked under SpecStateAt): every button of the state the last
\* stateAt returned reads up() == !down().
C37_SnapshotsConsistent ==
    \A n \in DOMAIN irec.returned.buttons :
       LET s == irec.returned.buttons[n]
       IN  snapUp(s) = JsBool(~s.wasDown)

\* C39 (checked under SpecRTC): a connection whose close() was called after
\* localConnectTo began is in state Closed, whatever callbacks ran since.
C39_ClosedStaysClosed ==
    \A c \in Peers : conn[c].closeCalled = "after" => conn[c].state = "Closed"

====
